---- MODULE Spec2Model ----
(***************************************************************************)
(* Model of src/blind.cpp: the process-wide secp256k1 context             *)
(* (ECC_Blinding_Start / ECC_Blinding_Stop / ECC_Blinding_Context),        *)
(* UnblindOutput and BlindOutputs.                                         *)
(*                                                                         *)
(* Encodings                                                               *)
(*  - A 64-bit integer (int64_t, uint64_t, CAmount) is a pair <<hi, lo>>   *)
(*    of its two 32-bit words, each written as the signed reading of its   *)
(*    bit pattern, so that a cast between signedness keeps the pair and a  *)
(*    cast to int keeps lo.                                                *)
(*  - A std::vector<unsigned char> holding a scalar is [size, val]; val is *)
(*    the big-endian number in the bytes.                                  *)
(*  - A curve point is written by its discrete logarithm modulo GroupOrder *)
(*    (k stands for k*G); 0 is the point at infinity / no point.           *)
(***************************************************************************)
EXTENDS Integers, Sequences, FiniteSets, TLC

VARIABLES
    secp256k1_context,        \* blind.cpp:10, 0 is NULL, else the context's identity
    nCreated,                 \* contexts secp256k1_context_create has handed out
    destroyed,                \* per context: calls of secp256k1_context_destroy on it
    lastLifecycle,            \* the most recent Start/Stop call and the handle it found
    ctxRet,                   \* what ECC_Blinding_Context last returned, and when
    aborted,                  \* "none", or what terminated the process
    mapArgs,                  \* the configuration GetArg reads
    blindCall,                \* BlindOutputs: arguments on entry, transaction on exit
    unblindCall               \* UnblindOutput: arguments, out-parameters, return value

vars == <<secp256k1_context, nCreated, destroyed, lastLifecycle, ctxRet, aborted,
          mapArgs, blindCall, unblindCall>>

(***************************************************************************)
(* Bounds                                                                  *)
(***************************************************************************)
MaxCtx == 5
MaxIn == 1
MaxOut == 2
GroupOrder == 5

(***************************************************************************)
(* 64-bit integers                                                         *)
(***************************************************************************)
ULt32(x, y) == IF (x < 0) = (y < 0) THEN x < y ELSE y < 0

ULt64(a, b) == \/ ULt32(a[1], b[1])
               \/ a[1] = b[1] /\ ULt32(a[2], b[2])

SLt64(a, b) == \/ a[1] < b[1]
               \/ a[1] = b[1] /\ ULt32(a[2], b[2])

Int64Of(n) == <<IF n < 0 THEN -1 ELSE 0, n>>

ToInt(v) == v[2]

Min(a, b) == IF b < a THEN b ELSE a

Max(a, b) == IF a < b THEN b ELSE a

MAX_MONEY == <<488944, 1510424576>>

MoneyRange(nValue) == /\ ~SLt64(nValue, Int64Of(0))
                      /\ ~SLt64(MAX_MONEY, nValue)

(***************************************************************************)
(* Crypto context lifecycle                                                *)
(***************************************************************************)
NULL == 0

CtxIds == 1..MaxCtx

Live == {c \in 1..nCreated : destroyed[c] = 0}

InitCtxStopped ==
    /\ secp256k1_context = NULL
    /\ nCreated = 0
    /\ destroyed = [c \in CtxIds |-> 0]
    /\ lastLifecycle = [op |-> "none", held |-> NULL, created |-> 0]
    /\ ctxRet = [called |-> FALSE, val |-> NULL, since |-> lastLifecycle]
    /\ aborted = "none"

\* ECC_Blinding_Start without its first assertion.
ECC_Blinding_Start_Unchecked ==
    /\ aborted = "none"
    /\ lastLifecycle' = [op |-> "Start", held |-> secp256k1_context, created |-> nCreated]
    /\ nCreated < MaxCtx
    /\ nCreated' = nCreated + 1
    /\ secp256k1_context' = nCreated + 1
    /\ UNCHANGED <<destroyed, aborted, ctxRet, mapArgs, blindCall, unblindCall>>

ECC_Blinding_Start ==
    /\ aborted = "none"
    /\ lastLifecycle' = [op |-> "Start", held |-> secp256k1_context, created |-> nCreated]
    /\ \/ /\ secp256k1_context # NULL
          /\ aborted' = "assert secp256k1_context == NULL"
          /\ UNCHANGED <<secp256k1_context, nCreated, destroyed>>
       \/ /\ secp256k1_context = NULL
          /\ aborted' = "assert ctx != NULL"
          /\ UNCHANGED <<secp256k1_context, nCreated, destroyed>>
       \/ /\ secp256k1_context = NULL
          /\ nCreated < MaxCtx
          /\ nCreated' = nCreated + 1
          /\ secp256k1_context' = nCreated + 1
          /\ UNCHANGED <<destroyed, aborted>>
    /\ UNCHANGED <<ctxRet, mapArgs, blindCall, unblindCall>>

\* ECC_Blinding_Stop that destroys the context and keeps the handle.
ECC_Blinding_Stop_KeepsHandle ==
    /\ aborted = "none"
    /\ lastLifecycle' = [op |-> "Stop", held |-> secp256k1_context, created |-> nCreated]
    /\ destroyed' = IF secp256k1_context # NULL
                    THEN [destroyed EXCEPT ![secp256k1_context] = @ + 1]
                    ELSE destroyed
    /\ UNCHANGED <<secp256k1_context, nCreated, ctxRet, aborted, mapArgs, blindCall,
                   unblindCall>>

ECC_Blinding_Stop ==
    /\ aborted = "none"
    /\ lastLifecycle' = [op |-> "Stop", held |-> secp256k1_context, created |-> nCreated]
    /\ secp256k1_context' = NULL
    /\ destroyed' = IF secp256k1_context # NULL
                    THEN [destroyed EXCEPT ![secp256k1_context] = @ + 1]
                    ELSE destroyed
    /\ UNCHANGED <<nCreated, ctxRet, aborted, mapArgs, blindCall, unblindCall>>

ECC_Blinding_Context ==
    /\ aborted = "none"
    /\ ctxRet' = [called |-> TRUE, val |-> secp256k1_context, since |-> lastLifecycle]
    /\ UNCHANGED <<secp256k1_context, nCreated, destroyed, lastLifecycle, aborted,
                   mapArgs, blindCall, unblindCall>>

(***************************************************************************)
(* Byte vectors, keys, hashing                                             *)
(***************************************************************************)
EmptyVch == [size |-> 0, val |-> 0]

Vch32(v) == [size |-> 32, val |-> v]

\* CPubKey: 0 is the invalid key, any other value a point.
IsValid(pubkey) == pubkey # 0

\* CPubKey(const std::vector<unsigned char>&): a vector of the wrong length or
\* with a bad header byte gives the invalid key.
CPubKeyOf(vch) == IF vch.size = 33 /\ vch.point # 0 THEN vch.point ELSE 0

\* The 33 bytes of a public key, as memcpy'd into vchNonceCommitment.
PubKeyBytes(pubkey) == [size |-> 33, point |-> pubkey]

GetPubKey(key) == key % GroupOrder

ECDH(key, pubkey) == (key * pubkey) % GroupOrder

CHash256(point) == <<"hash256", point>>

(***************************************************************************)
(* The secp256k1 primitives blind.cpp calls                                *)
(***************************************************************************)
ScalarOverflow(v) == v >= GroupOrder

RECURSIVE SignedSum(_, _, _)
SignedSum(blinds, n, npositive) ==
    IF n = 0 THEN 0
    ELSE SignedSum(blinds, n - 1, npositive)
         + (IF n <= npositive THEN blinds[n] ELSE GroupOrder - blinds[n])

\* blinds[1..n], the first npositive added and the rest subtracted.
secp256k1_pedersen_blind_sum(blinds, n, npositive) ==
    IF \E i \in 1..n : ScalarOverflow(blinds[i])
    THEN [ok |-> FALSE, blind |-> 0]
    ELSE [ok |-> TRUE, blind |-> SignedSum(blinds, n, npositive) % GroupOrder]

secp256k1_pedersen_commit(blind, value) ==
    IF ScalarOverflow(blind) \/ (blind = 0 /\ value = Int64Of(0))
    THEN [ok |-> FALSE, commit |-> [tag |-> "commit", blind |-> 0, value |-> Int64Of(0)]]
    ELSE [ok |-> TRUE, commit |-> [tag |-> "commit", blind |-> blind, value |-> value]]

secp256k1_rangeproof_sign(min_value, commit, blind, nonce, exp, min_bits, value) ==
    IF \/ ULt64(value, min_value)
       \/ min_bits > 64 \/ min_bits < 0 \/ exp < -1 \/ exp > 18
       \/ commit # [tag |-> "commit", blind |-> blind, value |-> value]
    THEN [ok |-> FALSE, proof |-> <<>>]
    ELSE [ok |-> TRUE,
          proof |-> <<[commit |-> commit, blind |-> blind, nonce |-> nonce,
                       value |-> value, exp |-> exp, min_bits |-> min_bits]>>]

secp256k1_rangeproof_rewind(nonce, commit, proof) ==
    IF Len(proof) = 1 /\ proof[1].commit = commit /\ proof[1].nonce = nonce
    THEN [ok |-> TRUE, blind |-> proof[1].blind, value |-> proof[1].value]
    ELSE [ok |-> FALSE, blind |-> 0, value |-> Int64Of(0)]

(***************************************************************************)
(* CTxOutValue                                                             *)
(***************************************************************************)
IsAmount(nValue) == nValue.vchCommitment.tag = "amount"

GetAmount(nValue) == nValue.vchCommitment.value

ExplicitValue(amount) ==
    [vchCommitment |-> [tag |-> "amount", blind |-> 0, value |-> amount],
     vchRangeproof |-> <<>>,
     vchNonceCommitment |-> [size |-> 0, point |-> 0]]

(***************************************************************************)
(* UnblindOutput                                                           *)
(***************************************************************************)
\* The nonce hashed from the ephemeral key itself, the key agreement left out.
UnblindNonce_NoECDH(key, ephemeral_key) == CHash256(ephemeral_key)

\* Lines 45-47: the nonce the recipient derives from the ephemeral key.
UnblindNonce(key, ephemeral_key) == CHash256(ECDH(key, ephemeral_key))

\* The out-parameters and return value of UnblindOutput; amount_in and
\* blinding_factor_in are what the caller's two variables held on entry.
UnblindOutput(ctx, key, txout, amount_in, blinding_factor_in) ==
    IF IsAmount(txout.nValue)
    THEN [abort |-> "none", ret |-> -1, amount_out |-> GetAmount(txout.nValue),
          blinding_factor_out |-> EmptyVch]
    ELSE LET ephemeral_key == CPubKeyOf(txout.nValue.vchNonceCommitment) IN
         IF ~IsValid(ephemeral_key)
         THEN [abort |-> "none", ret |-> 0, amount_out |-> amount_in,
               blinding_factor_out |-> blinding_factor_in]
         ELSE IF ctx = NULL
         THEN [abort |-> "null context", ret |-> 0, amount_out |-> amount_in,
               blinding_factor_out |-> Vch32(0)]
         ELSE LET nonce == UnblindNonce(key, ephemeral_key)
                  rw == secp256k1_rangeproof_rewind(nonce, txout.nValue.vchCommitment,
                                                    txout.nValue.vchRangeproof)
                  res == rw.ok
                  amount == rw.value
              IN  IF ~res \/ ULt64(MAX_MONEY, amount) \/ ~MoneyRange(amount)
                  THEN [abort |-> "none", ret |-> IF res THEN 1 ELSE 0,
                        amount_out |-> Int64Of(0), blinding_factor_out |-> EmptyVch]
                  ELSE [abort |-> "none", ret |-> IF res THEN 1 ELSE 0,
                        amount_out |-> amount, blinding_factor_out |-> Vch32(rw.blind)]

(***************************************************************************)
(* BlindOutputs                                                            *)
(***************************************************************************)
GetArg(strArg, nDefault) ==
    IF mapArgs[strArg] = <<>> THEN Int64Of(nDefault) ELSE mapArgs[strArg][1]

\* The two tunables as passed to secp256k1_rangeproof_sign.
CtExponent == Min(Max(ToInt(GetArg("-ct_exponent", 0)), -1), 18)

CtBits == Min(Max(ToInt(GetArg("-ct_bits", 32)), 1), 51)

\* The values of the non-empty vectors of a sequence, in order (the pointers
\* pushed on blindptrs).
RECURSIVE NonEmptyVals(_)
NonEmptyVals(factors) ==
    IF factors = <<>> THEN <<>>
    ELSE (IF Head(factors).size # 0 THEN <<Head(factors).val>> ELSE <<>>)
         \o NonEmptyVals(Tail(factors))

NToBlind(output_blinding_factors, output_pubkeys) ==
    Cardinality({nOut \in 1..Len(output_blinding_factors) :
                    /\ output_blinding_factors[nOut].size = 0
                    /\ IsValid(output_pubkeys[nOut])})

\* Lines 94-96 left out.
SpendCheck_Absent(nBlindsIn, nBlindsOut, nToBlind) == "none"

\* Lines 94-96.
SpendCheck(nBlindsIn, nBlindsOut, nToBlind) ==
    IF nBlindsIn # 0 /\ (nBlindsOut + nToBlind) = 0
    THEN "assert (nBlindsOut + nToBlind) != 0"
    ELSE "none"

\* The assertions of lines 63-96, in the order the code meets them: "none", or
\* the first one that fails.
Preconditions(input_blinding_factors, output_blinding_factors, output_pubkeys, tx) ==
    IF Len(tx.vout) # Len(output_blinding_factors)
    THEN "assert tx.vout.size() == output_blinding_factors.size()"
    ELSE IF Len(tx.vout) # Len(output_pubkeys)
    THEN "assert tx.vout.size() == output_pubkeys.size()"
    ELSE IF tx.vin # Len(input_blinding_factors)
    THEN "assert tx.vin.size() == input_blinding_factors.size()"
    ELSE IF \E nIn \in 1..tx.vin : input_blinding_factors[nIn].size \notin {0, 32}
    THEN "assert input_blinding_factors[nIn].size() == 32"
    ELSE LET mismatch == {nOut \in 1..Len(tx.vout) :
                             (output_blinding_factors[nOut].size # 0)
                                 # ~IsAmount(tx.vout[nOut].nValue)}
             badsize == {nOut \in 1..Len(tx.vout) :
                             output_blinding_factors[nOut].size \notin {0, 32}}
             first == CHOOSE n \in mismatch \cup badsize :
                             \A m \in mismatch \cup badsize : n <= m
         IN  IF mismatch \cup badsize # {}
             THEN IF first \in mismatch
                  THEN "assert (output_blinding_factors[nOut].size() != 0) == !IsAmount()"
                  ELSE "assert output_blinding_factors[nOut].size() == 32"
             ELSE SpendCheck(Len(NonEmptyVals(input_blinding_factors)),
                             Len(NonEmptyVals(output_blinding_factors)),
                             NToBlind(output_blinding_factors, output_pubkeys))

\* Line 102 without the test of the recipient key.
ShouldBlind_AnyKey(nValue, pubkey) == IsAmount(nValue)

\* Line 102: the outputs the second loop blinds.
ShouldBlind(nValue, pubkey) == IsAmount(nValue) /\ IsValid(pubkey)

\* Line 104 picking the first output to blind instead of the last.
IsLastToBlind_First(nBlinded, nToBlind) == nBlinded = 0

\* Line 104: the output whose factor is computed.
IsLastToBlind(nBlinded, nToBlind) == nBlinded + 1 = nToBlind

\* Line 106 summing the input factors only.
BlindSumCount_InputsOnly(nBlindsOut, nBlindsIn) == nBlindsIn

\* Line 106: how many of blindptrs the blind sum runs over.
BlindSumCount(nBlindsOut, nBlindsIn) == nBlindsOut + nBlindsIn

\* One pass of the loop of lines 101-136 from output nOut on. st carries the
\* loop's variables; rnd[k] holds what GetRandBytes and MakeNewKey give the k-th
\* output blinded in this call.
RECURSIVE BlindLoop(_, _, _, _, _, _)
BlindLoop(nOut, st, nBlindsIn, nToBlind, output_pubkeys, rnd) ==
    IF nOut > Len(st.tx.vout) \/ st.abort # "none" THEN st
    ELSE IF ~ShouldBlind(st.tx.vout[nOut].nValue, output_pubkeys[nOut])
    THEN BlindLoop(nOut + 1, st, nBlindsIn, nToBlind, output_pubkeys, rnd)
    ELSE
    LET last == IsLastToBlind(st.nBlinded, nToBlind)
        sum == secp256k1_pedersen_blind_sum(st.blindptrs,
                                            BlindSumCount(st.nBlindsOut, nBlindsIn),
                                            nBlindsIn)
        blind == IF last THEN sum.blind ELSE rnd[st.nBlinded + 1].rand
        amount == GetAmount(st.tx.vout[nOut].nValue)
        com == secp256k1_pedersen_commit(blind, amount)
        ephemeral_key == rnd[st.nBlinded + 1].eph
        ephemeral_pubkey == GetPubKey(ephemeral_key)
        nonce_key == ECDH(ephemeral_key, output_pubkeys[nOut])
        nonce == CHash256(nonce_key)
        sig == secp256k1_rangeproof_sign(Int64Of(0), com.commit, blind, nonce,
                                         CtExponent, CtBits, amount)
        value == [vchCommitment |-> com.commit,
                  vchRangeproof |-> sig.proof,
                  vchNonceCommitment |-> PubKeyBytes(ephemeral_pubkey)]
        fail == IF secp256k1_context = NULL THEN "null context"
                ELSE IF last /\ ~sum.ok THEN "assert secp256k1_pedersen_blind_sum"
                ELSE IF ~com.ok THEN "assert secp256k1_pedersen_commit"
                ELSE IF ~sig.ok THEN "assert res"
                ELSE "none"
    IN  IF fail \in {"null context", "assert secp256k1_pedersen_blind_sum",
                     "assert secp256k1_pedersen_commit"}
        THEN [st EXCEPT !.abort = fail]
        ELSE BlindLoop(nOut + 1,
                 [tx |-> [st.tx EXCEPT !.vout[nOut].nValue = value],
                  blindptrs |-> Append(st.blindptrs, blind),
                  nBlinded |-> st.nBlinded + 1,
                  nBlindsOut |-> st.nBlindsOut + 1,
                  made |-> Append(st.made,
                                  [nOut |-> nOut, blind |-> blind,
                                   source |-> IF last THEN "blind_sum" ELSE "GetRandBytes",
                                   exp |-> CtExponent, min_bits |-> CtBits]),
                  abort |-> fail],
                 nBlindsIn, nToBlind, output_pubkeys, rnd)

\* The whole call: the transaction as the call leaves it, the assertion that
\* ended it if one did, and the factor each newly blinded output was given.
BlindOutputs(input_blinding_factors, output_blinding_factors, output_pubkeys, tx, rnd) ==
    LET pre == Preconditions(input_blinding_factors, output_blinding_factors,
                             output_pubkeys, tx)
        inptrs == NonEmptyVals(input_blinding_factors)
        outptrs == NonEmptyVals(output_blinding_factors)
    IN  IF pre # "none"
        THEN [tx |-> tx, abort |-> pre, made |-> <<>>]
        ELSE LET st == BlindLoop(1, [tx |-> tx, blindptrs |-> inptrs \o outptrs,
                                     nBlinded |-> 0, nBlindsOut |-> Len(outptrs),
                                     made |-> <<>>, abort |-> "none"],
                                 Len(inptrs),
                                 NToBlind(output_blinding_factors, output_pubkeys),
                                 output_pubkeys, rnd)
             IN  [tx |-> st.tx, abort |-> st.abort, made |-> st.made]

(***************************************************************************)
(* Calls                                                                   *)
(***************************************************************************)
NoTx == [vin |-> 0, vout |-> <<>>]

NoBlindCall ==
    [state |-> "none", input_blinding_factors |-> <<>>,
     output_blinding_factors |-> <<>>, output_pubkeys |-> <<>>,
     txEntry |-> NoTx, tx |-> NoTx, made |-> <<>>]

NoUnblindCall ==
    [state |-> "none", key |-> 0, txout |-> [nValue |-> ExplicitValue(Int64Of(0))],
     nOut |-> 0, amount_in |-> Int64Of(0), blinding_factor_in |-> EmptyVch,
     amount_out |-> Int64Of(0), blinding_factor_out |-> EmptyVch, ret |-> 0]

\* What GetRandBytes and MakeNewKey can give one output: a scalar below the
\* group order or not, and a fresh private key.
RndDraws == {[rand |-> 1, eph |-> 1], [rand |-> 2, eph |-> 2],
             [rand |-> GroupOrder + 1, eph |-> 1]}

\* A call of BlindOutputs on the arguments the caller prepared. One call of
\* each function is recorded per run, and the blinding comes first.
DoBlindOutputs ==
    /\ aborted = "none"
    /\ blindCall.state = "entry"
    /\ unblindCall.state = "none"
    /\ LET c == blindCall
           k == IF Preconditions(c.input_blinding_factors, c.output_blinding_factors,
                                 c.output_pubkeys, c.tx) = "none"
                THEN NToBlind(c.output_blinding_factors, c.output_pubkeys) ELSE 0
       IN  \E rnd \in [1..Len(c.tx.vout) -> RndDraws] :
             /\ \A i \in 1..Len(c.tx.vout) : i > k => rnd[i] = [rand |-> 1, eph |-> 1]
             /\ LET r == BlindOutputs(c.input_blinding_factors, c.output_blinding_factors,
                                      c.output_pubkeys, c.tx, rnd)
                IN  /\ blindCall' = [c EXCEPT !.state = IF r.abort = "none"
                                                          THEN "returned" ELSE "aborted",
                                               !.tx = r.tx, !.made = r.made]
                    /\ aborted' = r.abort
    /\ UNCHANGED <<secp256k1_context, nCreated, destroyed, lastLifecycle, ctxRet,
                   mapArgs, unblindCall>>

\* Outputs as they arrive from other senders: blinded to a recipient by the
\* same primitives, for any 64-bit amount, or damaged on the way.
ForeignBlinded(blind, value, eph, pubkey) ==
    LET com == secp256k1_pedersen_commit(blind, value).commit
        nonce == CHash256(ECDH(eph, pubkey))
    IN  [nValue |-> [vchCommitment |-> com,
                     vchRangeproof |->
                        secp256k1_rangeproof_sign(Int64Of(0), com, blind, nonce,
                                                  0, 32, value).proof,
                     vchNonceCommitment |-> PubKeyBytes(GetPubKey(eph))]]

ReceivedOutputs ==
    LET over == ForeignBlinded(1, <<488944, 1510424577>>, 1, GetPubKey(1))
        huge == ForeignBlinded(2, <<-1, -1>>, 2, GetPubKey(2))
        good == ForeignBlinded(2, Int64Of(1), 1, GetPubKey(2))
    IN  {over, huge,
         [nValue |-> [good.nValue EXCEPT !.vchNonceCommitment = [size |-> 33, point |-> 0]]],
         [nValue |-> [good.nValue EXCEPT !.vchNonceCommitment = [size |-> 0, point |-> 0]]],
         [nValue |-> [good.nValue EXCEPT !.vchRangeproof = over.nValue.vchRangeproof]]}

\* What the caller's amount and blinding-factor variables hold before a call.
PriorOuts == {[amount |-> Int64Of(0), blinding_factor |-> EmptyVch],
              [amount |-> Int64Of(7), blinding_factor |-> Vch32(3)]}

PrivKeys == {1, 2}

\* A call of UnblindOutput on an output of the transaction or a received one.
\* The function keeps no state of its own, so one call is recorded per run.
DoUnblindOutput ==
    /\ aborted = "none"
    /\ unblindCall.state = "none"
    /\ \E key \in PrivKeys, prior \in PriorOuts,
          nOut \in 0..Len(blindCall.tx.vout) :
         \E txout \in IF nOut = 0 THEN ReceivedOutputs
                      ELSE {blindCall.tx.vout[nOut]} :
           LET r == UnblindOutput(secp256k1_context, key, txout, prior.amount,
                                  prior.blinding_factor)
           IN  /\ unblindCall' =
                     [state |-> IF r.abort = "none" THEN "returned" ELSE "aborted",
                      key |-> key, txout |-> txout, nOut |-> nOut,
                      amount_in |-> prior.amount,
                      blinding_factor_in |-> prior.blinding_factor,
                      amount_out |-> r.amount_out,
                      blinding_factor_out |-> r.blinding_factor_out, ret |-> r.ret]
               /\ aborted' = r.abort
    /\ UNCHANGED <<secp256k1_context, nCreated, destroyed, lastLifecycle, ctxRet,
                   mapArgs, blindCall>>

(***************************************************************************)
(* Initial states and specifications                                       *)
(***************************************************************************)
\* The process after ECC_Blinding_Start has run once.
InitCtxStarted ==
    /\ secp256k1_context = 1
    /\ nCreated = 1
    /\ destroyed = [c \in CtxIds |-> 0]
    /\ lastLifecycle = [op |-> "Start", held |-> NULL, created |-> 0]
    /\ ctxRet = [called |-> FALSE, val |-> NULL,
                 since |-> [op |-> "none", held |-> NULL, created |-> 0]]
    /\ aborted = "none"

ArgNames == {"-ct_exponent", "-ct_bits"}

Unset == [strArg \in ArgNames |-> <<>>]

DropLast(seq) == IF seq = <<>> THEN seq ELSE SubSeq(seq, 1, Len(seq) - 1)

\* The caller's arguments to BlindOutputs: up to MaxOut outputs, each a slot
\* [nValue, factor, pubkey], up to MaxIn inputs, and optionally one of the
\* three sequences shorter than the transaction's.
InitCall(Slots, InFactors, Defects, Configs) ==
    \E n \in 0..MaxOut, m \in 0..MaxIn, defect \in Defects, cfg \in Configs :
      \E outs \in [1..n -> Slots], ins \in [1..m -> InFactors] :
        LET tx == [vin |-> IF defect = "ibf" THEN m + 1 ELSE m,
                   vout |-> [i \in 1..n |-> [nValue |-> outs[i].nValue]]]
            obf == [i \in 1..n |-> outs[i].factor]
            pks == [i \in 1..n |-> outs[i].pubkey]
        IN  /\ mapArgs = cfg
            /\ blindCall = [state |-> "entry",
                            input_blinding_factors |-> ins,
                            output_blinding_factors |->
                                IF defect = "obf" THEN DropLast(obf) ELSE obf,
                            output_pubkeys |->
                                IF defect = "pk" THEN DropLast(pks) ELSE pks,
                            txEntry |-> tx, tx |-> tx, made |-> <<>>]
            /\ unblindCall = NoUnblindCall

BadSize(v) == [size |-> 31, val |-> v]

PreBlinded == ForeignBlinded(1, Int64Of(1), 1, GetPubKey(1)).nValue

\* Lifecycle alone.
InitCtx ==
    /\ InitCtxStopped
    /\ mapArgs = Unset
    /\ blindCall = NoBlindCall
    /\ unblindCall = NoUnblindCall

NextCtx == ECC_Blinding_Start \/ ECC_Blinding_Stop \/ ECC_Blinding_Context

SpecCtx == InitCtx /\ [][NextCtx]_vars

\* BlindOutputs over well-formed and ill-formed arguments.
BlindSlots ==
    [nValue : {ExplicitValue(Int64Of(1)), PreBlinded},
     factor : {EmptyVch, Vch32(1), BadSize(1)},
     pubkey : {0, GetPubKey(1)}]

InitBlind ==
    /\ InitCtxStarted
    /\ InitCall(BlindSlots, {EmptyVch, Vch32(2), BadSize(2), Vch32(GroupOrder + 1)},
                {"none", "obf", "pk", "ibf"}, {Unset})

NextBlind == DoBlindOutputs

SpecBlind == InitBlind /\ [][NextBlind]_vars

\* Blinding to recipients, then unblinding what was blinded or received.
RoundSlots ==
    [nValue : {ExplicitValue(Int64Of(0)), ExplicitValue(Int64Of(1)),
               ExplicitValue(MAX_MONEY)},
     factor : {EmptyVch},
     pubkey : {GetPubKey(key) : key \in PrivKeys}]

InitRound ==
    /\ InitCtxStopped \/ InitCtxStarted
    /\ InitCall(RoundSlots, {Vch32(2)}, {"none"}, {Unset})

NextRound == DoBlindOutputs \/ DoUnblindOutput

SpecRound == InitRound /\ [][NextRound]_vars

\* BlindOutputs under the configurations -ct_exponent and -ct_bits can take.
ArgValues == {<<>>, <<Int64Of(25)>>, <<Int64Of(-5)>>, <<Int64Of(0)>>, <<Int64Of(100)>>,
              <<Int64Of(7)>>, <<<<0, -2147483647>>>>, <<<<1, 5>>>>,
              <<<<2147483647, -1>>>>, <<<<-2, 40>>>>}

Configs == {[strArg \in ArgNames |-> IF strArg = "-ct_exponent" THEN e ELSE b] :
               e \in ArgValues, b \in ArgValues}

InitClamp ==
    /\ InitCtxStarted
    /\ InitCall([nValue : {ExplicitValue(Int64Of(1))}, factor : {EmptyVch},
                 pubkey : {GetPubKey(1)}], {EmptyVch}, {"none"}, Configs)

NextClamp == DoBlindOutputs

SpecClamp == InitClamp /\ [][NextClamp]_vars

(***************************************************************************)
(* Properties                                                              *)
(***************************************************************************)
U == unblindCall

B == blindCall

\* What the rewind step of the recorded UnblindOutput call yields.
RewindOfCall ==
    secp256k1_rangeproof_rewind(
        CHash256(ECDH(U.key, CPubKeyOf(U.txout.nValue.vchNonceCommitment))),
        U.txout.nValue.vchCommitment, U.txout.nValue.vchRangeproof)

UnblindReachedRewind ==
    /\ U.state = "returned"
    /\ ~IsAmount(U.txout.nValue)
    /\ IsValid(CPubKeyOf(U.txout.nValue.vchNonceCommitment))

\* C1: UnblindOutput on a Blinded output with a well-formed ephemeral key, when
\* the rewind succeeds but the recovered amount exceeds MAX_MONEY or is outside
\* the money range, reports failure (0) with amount 0 and an empty blinding
\* factor.
C1_OutOfRangeReportsFailure ==
    ( /\ UnblindReachedRewind
      /\ RewindOfCall.ok
      /\ ULt64(MAX_MONEY, RewindOfCall.value) \/ ~MoneyRange(RewindOfCall.value) )
    => /\ U.ret = 0
       /\ U.amount_out = Int64Of(0)
       /\ U.blinding_factor_out = EmptyVch

\* C2: UnblindOutput on a Blinded output whose nonce commitment is no well-formed
\* public key reports failure (0) with amount 0 and an empty blinding factor,
\* whatever the key and whatever the two out-parameters held before.
C2_InvalidEphemeralKeyClearsOutputs ==
    ( /\ U.state = "returned"
      /\ ~IsAmount(U.txout.nValue)
      /\ ~IsValid(CPubKeyOf(U.txout.nValue.vchNonceCommitment)) )
    => /\ U.ret = 0
       /\ U.amount_out = Int64Of(0)
       /\ U.blinding_factor_out = EmptyVch

\* The record BlindOutputs left for output nOut if it blinded it in this call.
MadeFor(nOut) == {i \in 1..Len(B.made) : B.made[i].nOut = nOut}

RoundTripCase ==
    /\ B.state = "returned"
    /\ U.state = "returned"
    /\ U.nOut >= 1
    /\ MadeFor(U.nOut) # {}
    /\ GetPubKey(U.key) = B.output_pubkeys[U.nOut]
    /\ MoneyRange(GetAmount(B.txEntry.vout[U.nOut].nValue))

\* C3: round trip. An Explicit output of an amount A in the money range, newly
\* blinded by BlindOutputs to a recipient's public key, is unblinded with the
\* recipient's private key to success (1), amount A and the 32-byte factor the
\* output's commitment was made with, both sides deriving the same nonce.
C3_RoundTrip ==
    RoundTripCase =>
      \A i \in MadeFor(U.nOut) :
        LET A == GetAmount(B.txEntry.vout[U.nOut].nValue)
            nValue == B.tx.vout[U.nOut].nValue
        IN  /\ U.ret = 1
            /\ U.amount_out = A
            /\ U.blinding_factor_out = Vch32(B.made[i].blind)
            /\ U.blinding_factor_out.size = 32
            /\ nValue.vchCommitment =
                 secp256k1_pedersen_commit(U.blinding_factor_out.val, A).commit
            /\ nValue.vchRangeproof[1].nonce =
                 CHash256(ECDH(U.key, CPubKeyOf(nValue.vchNonceCommitment)))

C3_Witness ==
    /\ RoundTripCase
    /\ U.ret = 1
    /\ U.amount_out = MAX_MONEY
    /\ U.key = 2
    /\ Len(B.made) = 2

RECURSIVE SumSeq(_)
SumSeq(seq) == IF seq = <<>> THEN 0 ELSE Head(seq) + SumSeq(Tail(seq))

\* C4: sum invariant. After BlindOutputs returns from a call that newly blinded
\* at least one output, the output blinding factors (the caller's for the
\* pre-blinded outputs and every new one) sum, modulo the group order, to the
\* sum of the non-empty input blinding factors.
C4_SumInvariant ==
    (B.state = "returned" /\ B.made # <<>>)
    => (SumSeq(NonEmptyVals(B.output_blinding_factors))
          + SumSeq([i \in 1..Len(B.made) |-> B.made[i].blind])) % GroupOrder
       = SumSeq(NonEmptyVals(B.input_blinding_factors)) % GroupOrder

C4_Witness ==
    /\ B.state = "returned"
    /\ B.made # <<>>
    /\ NonEmptyVals(B.input_blinding_factors) # <<>>
    /\ NonEmptyVals(B.output_blinding_factors) # <<>>
    /\ SumSeq(NonEmptyVals(B.input_blinding_factors)) % GroupOrder # 0

\* The outputs a call is to blind: Explicit on entry, with a valid recipient key.
Eligible ==
    {nOut \in 1..Len(B.txEntry.vout) :
        /\ IsAmount(B.txEntry.vout[nOut].nValue)
        /\ nOut \in DOMAIN B.output_pubkeys
        /\ IsValid(B.output_pubkeys[nOut])}

\* C5: a returned call with at least one output to blind blinds exactly the
\* eligible outputs, in ascending index, gives the blind-sum factor to the one
\* of highest index and a factor from the random source to every other one;
\* which output that is follows from the transaction and the keys alone.
C5_LastGetsComputedFactor ==
    (B.state = "returned" /\ Eligible # {})
    => /\ {B.made[i].nOut : i \in 1..Len(B.made)} = Eligible
       /\ Len(B.made) = Cardinality(Eligible)
       /\ \A i, j \in 1..Len(B.made) : i < j => B.made[i].nOut < B.made[j].nOut
       /\ \A i \in 1..Len(B.made) :
            /\ B.made[i].source =
                 IF \A nOut \in Eligible : nOut <= B.made[i].nOut
                 THEN "blind_sum" ELSE "GetRandBytes"
            /\ B.made[i].source = "GetRandBytes"
                 => \E draw \in RndDraws : B.made[i].blind = draw.rand
            /\ B.tx.vout[B.made[i].nOut].nValue.vchCommitment.blind = B.made[i].blind

C5_Witness ==
    /\ B.state = "returned"
    /\ Len(B.made) = 2
    /\ B.made[1].source = "GetRandBytes"
    /\ B.made[2].source = "blind_sum"

\* C6: BlindOutputs leaves every output that was Blinded on entry, or Explicit
\* with an invalid recipient key, exactly as it was, and never changes the
\* inputs or the number and order of the outputs.
C6_IneligibleUntouched ==
    (B.state \in {"returned", "aborted"})
    => /\ B.tx.vin = B.txEntry.vin
       /\ Len(B.tx.vout) = Len(B.txEntry.vout)
       /\ \A nOut \in 1..Len(B.txEntry.vout) :
            nOut \notin Eligible => B.tx.vout[nOut] = B.txEntry.vout[nOut]

C6_Witness ==
    /\ B.state = "returned"
    /\ B.made # <<>>
    /\ \E nOut \in 1..Len(B.txEntry.vout) :
         /\ ~IsAmount(B.txEntry.vout[nOut].nValue)
         /\ IsValid(B.output_pubkeys[nOut])
         /\ B.tx.vout[nOut] = B.txEntry.vout[nOut]

LengthViolation ==
    \/ Len(B.output_blinding_factors) # Len(B.txEntry.vout)
    \/ Len(B.output_pubkeys) # Len(B.txEntry.vout)
    \/ Len(B.input_blinding_factors) # B.txEntry.vin

SizeViolation ==
    \/ \E i \in DOMAIN B.input_blinding_factors :
         B.input_blinding_factors[i].size \notin {0, 32}
    \/ \E i \in DOMAIN B.output_blinding_factors :
         B.output_blinding_factors[i].size \notin {0, 32}

StateViolation ==
    \E nOut \in DOMAIN B.output_blinding_factors \cap DOMAIN B.txEntry.vout :
       (B.output_blinding_factors[nOut].size # 0) = IsAmount(B.txEntry.vout[nOut].nValue)

SpendViolation ==
    /\ \E i \in DOMAIN B.input_blinding_factors : B.input_blinding_factors[i].size # 0
    /\ \A nOut \in DOMAIN B.txEntry.vout :
         IsAmount(B.txEntry.vout[nOut].nValue) /\ nOut \notin Eligible

\* C7: a call of BlindOutputs that breaks the caller's contract (sequence
\* lengths, a non-empty factor not of 32 bytes, an output's state against its
\* supplied factor, or a non-empty input factor with no output blinded or to
\* blind) aborts, with the transaction's outputs as they were on entry.
C7_ViolationsAbortUnchanged ==
    ( /\ B.state \in {"returned", "aborted"}
      /\ LengthViolation \/ SizeViolation \/ StateViolation \/ SpendViolation )
    => /\ B.state = "aborted"
       /\ aborted # "none"
       /\ B.tx = B.txEntry

C7_Witness ==
    /\ B.state = "aborted"
    /\ SpendViolation
    /\ ~LengthViolation /\ ~SizeViolation /\ ~StateViolation
    /\ Len(B.txEntry.vout) >= 1
    /\ B.tx = B.txEntry

\* C8: a Start while a context is held fails fatally and neither creates nor
\* installs a context; a Start with none held that returns leaves the handle
\* non-empty; at most one context is live at any time.
C8_StartDiscipline ==
    /\ (lastLifecycle.op = "Start" /\ lastLifecycle.held # NULL)
         => /\ aborted = "assert secp256k1_context == NULL"
            /\ nCreated = lastLifecycle.created
            /\ secp256k1_context = lastLifecycle.held
    /\ (lastLifecycle.op = "Start" /\ lastLifecycle.held = NULL /\ aborted = "none")
         => /\ secp256k1_context # NULL
            /\ secp256k1_context \in Live
    /\ Cardinality(Live) <= 1

C8_Witness ==
    /\ lastLifecycle.op = "Start"
    /\ lastLifecycle.held # NULL
    /\ lastLifecycle.created >= 2
    /\ aborted # "none"

\* C9: Stop destroys the held context and clears the handle, and does nothing
\* when none is held: the accessor returns empty after a Stop and the held
\* context exactly when the latest lifecycle call was a successful Start; each
\* context is destroyed at most once, namely every created one but the held
\* one; a Start after a Stop does not fail its precondition.
C9_StopDiscipline ==
    /\ lastLifecycle.op = "Stop" => secp256k1_context = NULL
    /\ ctxRet.called =>
         /\ (ctxRet.val # NULL) = (ctxRet.since.op = "Start")
         /\ ctxRet.since.op = "Start" => ctxRet.val = ctxRet.since.created + 1
         /\ ctxRet.since = lastLifecycle => ctxRet.val = secp256k1_context
    /\ \A c \in CtxIds :
         destroyed[c] = IF c <= nCreated /\ c # secp256k1_context THEN 1 ELSE 0
    /\ (lastLifecycle.op = "Start" /\ lastLifecycle.held = NULL)
         => aborted # "assert secp256k1_context == NULL"

C9_Witness ==
    /\ lastLifecycle = [op |-> "Start", held |-> NULL, created |-> 1]
    /\ aborted = "none"
    /\ destroyed[1] = 1
    /\ ctxRet = [called |-> TRUE, val |-> 2, since |-> lastLifecycle]

\* min(max(v, lo), hi) of a 64-bit v.
Clamp64(v, lo, hi) ==
    IF SLt64(v, Int64Of(lo)) THEN lo
    ELSE IF SLt64(Int64Of(hi), v) THEN hi
    ELSE v[2]

\* C10: for every 64-bit value v of -ct_exponent the exponent passed to
\* range-proof signing is min(max(v, -1), 18), and for every value w of -ct_bits
\* the bit width passed is min(max(w, 1), 51); unset options give 0 and 32.
C10_Clamping ==
    B.state = "returned" =>
      \A i \in 1..Len(B.made) :
        /\ B.made[i].exp = Clamp64(GetArg("-ct_exponent", 0), -1, 18)
        /\ B.made[i].min_bits = Clamp64(GetArg("-ct_bits", 32), 1, 51)

====
